---------------------------- MODULE Spec2Model ----------------------------
(***************************************************************************)
(* Baseline fitting of GAS/first_look.py: the per-spectrum fit function    *)
(* made by blfunc_generator, the cube driver baseline_cube and the file    *)
(* level entry point baseline.                                             *)
(*                                                                         *)
(* Arrays are records [shape, data] with data the C-order flat sequence,   *)
(* as numpy lays a contiguous array out.  A sample is a symbolic float     *)
(* [cls, v, minus]: cls is "finite", "nan" or "inf", v the stored finite   *)
(* value and minus the sequence of evaluated baseline models subtracted    *)
(* from it.  The numerical fit itself (np.polyfit, UnivariateSpline) is    *)
(* kept symbolic: a fitted model is the record of the routine, the points  *)
(* handed to it and the order.                                             *)
(*                                                                         *)
(* The source is Python 2 code (sampling/2 is used as a slice index), so   *)
(* `/` between integers is floor division.                                 *)
(***************************************************************************)
EXTENDS Integers, Sequences, FiniteSets, TLC

VARIABLES pc, caller, cube, cubemask, polyorder, splineorder, sampling,
          index_clean, reshaped_cube, fit_cube, pending, baselined, nfit,
          outcome, file_out

vars == <<pc, caller, cube, cubemask, polyorder, splineorder, sampling,
          index_clean, reshaped_cube, fit_cube, pending, baselined, nfit,
          outcome, file_out>>

---------------------------------------------------------------------------
(* Bounds of the model. *)

\* longest spectral axis of the single-pixel cubes of SpecFit
MaxLen == 4
\* largest polynomial order drawn
MaxOrder == 2
\* largest sampling factor drawn
MaxSampling == 3
\* most spatial pixels (ny * nx) of the cubes of Spec
MaxPix == 4
\* most True entries of a supplied cubemask
MaxBad == 1

---------------------------------------------------------------------------
(* Python and numpy values. *)

\* The value None of an order parameter (orders drawn are >= 0).
None == -1

SplineOrderMin == 1
SplineOrderMax == 4

\* Names bound at module level of first_look.py: its imports and its defs.
ModuleGlobals ==
    {"sys", "fits", "u", "np", "pyspeckit", "parallel_map", "log",
     "SpectralCube", "create_index", "blfunc_generator", "baseline_cube",
     "baseline", "peak_rms"}

Sample(cls, v) == [cls |-> cls, v |-> IF cls = "finite" THEN v ELSE 0,
                   minus |-> <<>>]

nan == Sample("nan", 0)

isfinite(s) == s.cls = "finite"

isnan(s) == s.cls = "nan"

Min(a, b) == IF a < b THEN a ELSE b

Prod(shape) == IF Len(shape) = 0 THEN 1
               ELSE IF Len(shape) = 1 THEN shape[1]
               ELSE IF Len(shape) = 2 THEN shape[1] * shape[2]
               ELSE shape[1] * shape[2] * shape[3]

\* seq[start:stop:step] for 0 <= start, 0 <= stop, step >= 1
PySlice(seq, start, stop, step) ==
    LET hi == Min(stop, Len(seq))
        n  == IF start >= hi THEN 0 ELSE (hi - start + step - 1) \div step
    IN  [k \in 1..n |-> seq[start + (k - 1) * step + 1]]

\* a[m] for a boolean index m of the same length: the entries where m holds
RECURSIVE BoolIndex(_, _)
BoolIndex(a, m) ==
    IF Len(a) = 0 THEN <<>>
    ELSE IF Head(m) THEN <<Head(a)>> \o BoolIndex(Tail(a), Tail(m))
    ELSE BoolIndex(Tail(a), Tail(m))

count_nonzero(m) == Cardinality({i \in 1..Len(m) : m[i]})

\* np.arange(n)
arange(n) == [i \in 1..n |-> i - 1]

\* np.mean(list of equal-length arrays, axis=0): entry j is the mean of the
\* j-th entries, kept as the tuple of the values averaged.
mean_axis0(groups) ==
    [j \in 1..Len(groups[1]) |-> [ii \in 1..Len(groups) |-> groups[ii][j]]]

\* a.reshape(shape) of a contiguous array: same flat data
reshape(a, shape) == [shape |-> shape, data |-> a.data]

\* a.T of a 2-d array
Transpose(a) ==
    LET r == a.shape[1]
        c == a.shape[2]
    IN  [shape |-> <<c, r>>,
         data  |-> [k \in 1..(r * c) |->
                      a.data[((k - 1) % r) * c + ((k - 1) \div r) + 1]]]

\* row i (0-based) of a 2-d array, as iterating over it yields
Row(a, i) == [j \in 1..a.shape[2] |-> a.data[i * a.shape[2] + j]]

\* np.array(list of equal-length rows), rows given as a function on 0..n-1
array2d(rows, n, m) ==
    [shape |-> <<n, m>>,
     data  |-> [k \in 1..(n * m) |-> rows[(k - 1) \div m][((k - 1) % m) + 1]]]

---------------------------------------------------------------------------
(* blfunc_generator.blfunc *)

Return(y, call, xfit, yfit, k) ==
    [kind |-> "return", exc |-> "", value |-> y,
     call |-> call, xfit |-> xfit, yfit |-> yfit, k |-> k]

Raise(exc, call, xfit, yfit, k) ==
    [kind |-> "raise", exc |-> exc, value |-> <<>>,
     call |-> call, xfit |-> xfit, yfit |-> yfit, k |-> k]

\* yreal - model(x): every sample of yreal minus the model evaluated at its x
Subtract(yreal, x, fn, xfit, yfit, k) ==
    [c \in 1..Len(yreal) |->
        [cls   |-> yreal[c].cls,
         v     |-> yreal[c].v,
         minus |-> Append(yreal[c].minus,
                          [fn |-> fn, xfit |-> xfit, yfit |-> yfit,
                           k |-> k, at |-> x[c]])]]

endpoint(ngood, smp) == ngood - (ngood % smp)

\* [yfit[mask][ii:endpoint:sampling] for ii in range(sampling)]
PhaseGroups(good, ngood, smp) ==
    [ii \in 1..smp |-> PySlice(good, ii - 1, endpoint(ngood, smp), smp)]

\* the subsampled x-axis started at offset sampling instead of sampling/2
SubsampledX_offset_sampling(xgood, ngood, smp) ==
    PySlice(xgood, smp, endpoint(ngood, smp), smp)

\* x[mask][sampling/2:endpoint:sampling]
SubsampledX(xgood, ngood, smp) ==
    PySlice(xgood, smp \div 2, endpoint(ngood, smp), smp)

\* np.polyfit(xfit, y, k) followed by yreal - np.polyval(polypars, x):
\* polyfit rejects a negative order, an empty x and x, y of unequal length.
polyfit_subtract(yreal, x, xfit, y, k) ==
    IF k < 0 THEN Raise("ValueError: expected deg >= 0", "polyfit", xfit, y, k)
    ELSE IF Len(xfit) = 0
    THEN Raise("TypeError: expected non-empty vector for x", "polyfit", xfit, y, k)
    ELSE IF Len(xfit) # Len(y)
    THEN Raise("TypeError: expected x and y to have same length", "polyfit", xfit, y, k)
    ELSE Return(Subtract(yreal, x, "polyval", xfit, y, k), "polyfit", xfit, y, k)

\* blfunc with the spline branch tested first: a given splineorder wins
\* over polyorder, and both given is reported as an error
blfunc_spline_first(yfit, yreal, x, porder, sorder, smp) ==
    LET mask  == [i \in 1..Len(yfit) |-> isfinite(yfit[i])]
        ngood == count_nonzero(mask)
        y     == mean_axis0(PhaseGroups(BoolIndex(yfit, mask), ngood, smp))
        xs    == SubsampledX(BoolIndex(x, mask), ngood, smp)
    IN  IF sorder # None /\ porder # None
        THEN Raise("ValueError: Must provide polyorder or splineorder",
                   "", <<>>, <<>>, None)
        ELSE IF sorder # None
        THEN Raise("NameError: global name 'scipyOK' is not defined",
                   "", <<>>, <<>>, sorder)
        ELSE IF porder # None
        THEN IF ngood <= porder
             THEN Return(yreal, "", <<>>, <<>>, porder)
             ELSE polyfit_subtract(yreal, x, xs, y, porder)
        ELSE Return(yreal, "", <<>>, <<>>, None)

\* blfunc with the too-few-samples fallback of the spline branch tested
\* before anything else of that branch
blfunc_fallback_first(yfit, yreal, x, porder, sorder, smp) ==
    LET mask  == [i \in 1..Len(yfit) |-> isfinite(yfit[i])]
        ngood == count_nonzero(mask)
        y     == mean_axis0(PhaseGroups(BoolIndex(yfit, mask), ngood, smp))
        xs    == SubsampledX(BoolIndex(x, mask), ngood, smp)
    IN  IF porder # None
        THEN IF ngood <= porder
             THEN Return(yreal, "", <<>>, <<>>, porder)
             ELSE polyfit_subtract(yreal, x, xs, y, porder)
        ELSE IF sorder # None
        THEN IF ngood <= sorder
             THEN Return(yreal, "", <<>>, <<>>, sorder)
             ELSE Raise("NameError: global name 'scipyOK' is not defined",
                        "", <<>>, <<>>, sorder)
        ELSE Raise("ValueError: Must provide polyorder or splineorder",
                   "", <<>>, <<>>, None)

blfunc(yfit, yreal, x, porder, sorder, smp) ==
    LET mask  == [i \in 1..Len(yfit) |-> isfinite(yfit[i])]
        ngood == count_nonzero(mask)
        y     == mean_axis0(PhaseGroups(BoolIndex(yfit, mask), ngood, smp))
        xs    == SubsampledX(BoolIndex(x, mask), ngood, smp)
    IN  IF porder # None
        THEN IF ngood <= porder
             THEN Return(yreal, "", <<>>, <<>>, porder)
             ELSE polyfit_subtract(yreal, x, xs, y, porder)
        ELSE IF sorder # None
        THEN IF "scipyOK" \notin ModuleGlobals
             THEN Raise("NameError: global name 'scipyOK' is not defined",
                        "", <<>>, <<>>, sorder)
             ELSE IF sorder < SplineOrderMin \/ sorder > SplineOrderMax
             THEN Raise("ValueError: Spline order must be in {1,2,3,4}",
                        "", <<>>, <<>>, sorder)
             ELSE IF ngood <= sorder
             THEN Return(yreal, "", <<>>, <<>>, sorder)
             ELSE IF Len(y) <= sorder
             THEN Raise("ValueError: Sampling is too sparse.",
                        "", <<>>, <<>>, sorder)
             ELSE IF "UnivariateSpline" \notin ModuleGlobals
             THEN Raise("NameError: global name 'UnivariateSpline' is not defined",
                        "", <<>>, <<>>, sorder)
             ELSE Return(Subtract(yreal, x, "spline", xs, y, sorder),
                         "UnivariateSpline", xs, y, sorder)
        ELSE Raise("ValueError: Must provide polyorder or splineorder",
                   "", <<>>, <<>>, None)

---------------------------------------------------------------------------
(* State of one call. *)

NoArray == [shape |-> <<>>, data |-> <<>>]

NoMask == [dtype |-> "NoneType", shape |-> <<>>, data |-> <<>>]

NoOutcome == [kind |-> "none", exc |-> "", blcube |-> NoArray]

nchan == cube.shape[1]

npix == cube.shape[2] * cube.shape[3]

\* flat (C-order) position, 1-based, of sample (c, y, x) of the cube
Flat(c, y, x) == c * cube.shape[2] * cube.shape[3] + y * cube.shape[3] + x + 1

\* channel of the 1-based flat position i
ChanOf(i) == (i - 1) \div npix

---------------------------------------------------------------------------
(* baseline, lines 140-144: the mask is True where the fit must ignore.    *)
\* the mask with the clean channels set True instead of False
baseline_mask_inverted ==
    LET finite == [i \in 1..Len(cube.data) |-> isfinite(cube.data[i])]
        clean  == [i \in 1..Len(cube.data) |->
                      IF ChanOf(i) \in index_clean THEN TRUE ELSE finite[i]]
    IN  [dtype |-> "bool", shape |-> cube.shape,
         data  |-> [i \in 1..Len(cube.data) |-> clean[i] \/ isnan(cube.data[i])]]

baseline_mask ==
    LET finite == [i \in 1..Len(cube.data) |-> isfinite(cube.data[i])]
        clean  == [i \in 1..Len(cube.data) |->
                      IF ChanOf(i) \in index_clean THEN FALSE ELSE finite[i]]
    IN  [dtype |-> "bool", shape |-> cube.shape,
         data  |-> [i \in 1..Len(cube.data) |-> clean[i] \/ isnan(cube.data[i])]]

baseline ==
    /\ pc = "baseline"
    /\ cubemask' = baseline_mask
    /\ splineorder' = None
    /\ sampling' = 1
    /\ pc' = "baseline_cube"
    /\ UNCHANGED <<caller, cube, polyorder, index_clean, reshaped_cube,
                   fit_cube, pending, baselined, nfit, outcome, file_out>>

---------------------------------------------------------------------------
(* baseline_cube, lines 101-122: reshape, validate and apply the mask. *)

\* cube.reshape(cube.shape[0], cube.shape[1]*cube.shape[2]).T
spectra(a) == Transpose(reshape(a, <<a.shape[1], a.shape[2] * a.shape[3]>>))

\* masked_cube = cube.copy(); masked_cube[cubemask] = np.nan
masked_cube ==
    [shape |-> cube.shape,
     data  |-> [i \in 1..Len(cube.data) |->
                  IF cubemask.data[i] THEN nan ELSE cube.data[i]]]

NoResult == [kind |-> "pending", exc |-> "", value |-> <<>>,
             call |-> "", xfit |-> <<>>, yfit |-> <<>>, k |-> None]

\* lines 110-117: the exception the mask validation raises, "" when none
mask_check_dtype_only ==
    IF cubemask.dtype = "NoneType" THEN ""
    ELSE IF cubemask.dtype # "bool"
    THEN "TypeError: Cube mask *must* be a boolean array."
    ELSE ""

mask_check ==
    IF cubemask.dtype = "NoneType" THEN ""
    ELSE IF cubemask.dtype # "bool"
    THEN "TypeError: Cube mask *must* be a boolean array."
    ELSE IF cubemask.shape # cube.shape
    THEN "ValueError: Mask shape does not match cube shape"
    ELSE ""

baseline_cube_setup ==
    /\ pc = "baseline_cube"
    /\ reshaped_cube' = spectra(cube)
    /\ IF mask_check # ""
       THEN /\ pc' = "raised"
            /\ outcome' = [kind |-> "raised", blcube |-> NoArray,
                           exc |-> mask_check]
            /\ UNCHANGED <<fit_cube, pending, baselined>>
       ELSE /\ fit_cube' = IF cubemask.dtype = "NoneType"
                           THEN spectra(cube)
                           ELSE spectra(masked_cube)
            /\ pc' = "parallel_map"
            /\ pending' = 0..(npix - 1)
            /\ baselined' = [p \in 0..(npix - 1) |-> NoResult]
            /\ outcome' = outcome
    /\ UNCHANGED <<caller, cube, cubemask, polyorder, splineorder, sampling,
                   index_clean, nfit, file_out>>

---------------------------------------------------------------------------
(* baseline_cube, line 125: parallel_map(blfunc, zip(fit_cube,             *)
(* reshaped_cube)).  Each pair is one task; tasks run in any order.  A     *)
(* task that raises makes the map raise, which may happen while other      *)
(* tasks have not run; the results come back as a list in input order.     *)

\* the p-th item of zip(fit_cube, reshaped_cube)
zip_item(p) == <<Row(fit_cube, p), Row(reshaped_cube, p)>>

\* blfunc applied to one item, with x = np.arange(cube.shape[0])
fit_item(item) ==
    blfunc(item[1], item[2], arange(nchan), polyorder, splineorder, sampling)

task(p) ==
    /\ pc = "parallel_map"
    /\ p \in pending
    /\ baselined' = [baselined EXCEPT ![p] = fit_item(zip_item(p))]
    /\ pending' = pending \ {p}
    /\ nfit' = nfit + 1
    /\ UNCHANGED <<pc, caller, cube, cubemask, polyorder, splineorder,
                   sampling, index_clean, reshaped_cube, fit_cube, outcome,
                   file_out>>

map_raise ==
    /\ pc = "parallel_map"
    /\ \E p \in 0..(npix - 1) :
          /\ baselined[p].kind = "raise"
          /\ outcome' = [kind |-> "raised", blcube |-> NoArray,
                         exc |-> baselined[p].exc]
    /\ pc' = "raised"
    /\ UNCHANGED <<caller, cube, cubemask, polyorder, splineorder, sampling,
                   index_clean, reshaped_cube, fit_cube, pending, baselined,
                   nfit, file_out>>

\* the reassembly without the transpose: baselined.reshape(cube.shape)
assemble_no_transpose(results) ==
    reshape(array2d([p \in 0..(npix - 1) |-> results[p].value], npix, nchan),
            cube.shape)

\* lines 125-127: np.array(results) then baselined.T.reshape(cube.shape)
assemble(results) ==
    reshape(Transpose(array2d([p \in 0..(npix - 1) |-> results[p].value],
                              npix, nchan)),
            cube.shape)

\* a map that swallows a task's exception and keeps that pixel's raw spectrum
map_return_partial ==
    /\ pc = "parallel_map"
    /\ pending = {}
    /\ outcome' = [kind |-> "returned", exc |-> "",
                   blcube |-> assemble([p \in 0..(npix - 1) |->
                                 IF baselined[p].kind = "return" THEN baselined[p]
                                 ELSE [baselined[p] EXCEPT
                                         !.value = Row(reshaped_cube, p)]])]
    /\ file_out' = IF caller = "baseline" THEN outcome'.blcube ELSE file_out
    /\ pc' = "returned"
    /\ UNCHANGED <<caller, cube, cubemask, polyorder, splineorder, sampling,
                   index_clean, reshaped_cube, fit_cube, pending, baselined,
                   nfit>>

map_return ==
    /\ pc = "parallel_map"
    /\ pending = {}
    /\ \A p \in 0..(npix - 1) : baselined[p].kind = "return"
    /\ outcome' = [kind |-> "returned", exc |-> "", blcube |-> assemble(baselined)]
    /\ file_out' = IF caller = "baseline" THEN outcome'.blcube ELSE file_out
    /\ pc' = "returned"
    /\ UNCHANGED <<caller, cube, cubemask, polyorder, splineorder, sampling,
                   index_clean, reshaped_cube, fit_cube, pending, baselined,
                   nfit>>

Next ==
    \/ baseline
    \/ baseline_cube_setup
    \/ \E p \in 0..(npix - 1) : task(p)
    \/ map_raise
    \/ map_return

---------------------------------------------------------------------------
(* Inputs. *)

\* the cube whose sample at flat position i has class cls[i] and, when
\* finite, the value i
CubeOf(shape, cls) ==
    [shape |-> shape,
     data  |-> [i \in 1..Prod(shape) |-> Sample(cls[i], i)]]

BoolMask(shape, trues) ==
    [dtype |-> "bool", shape |-> shape,
     data  |-> [i \in 1..Prod(shape) |-> i \in trues]]

\* every mask a caller may pass for a cube of this shape: none, a boolean
\* mask of the cube's shape with at most MaxBad True entries, and the
\* invalid ones (wrong dtype, wrong shape, both)
Masks(shape) ==
    {NoMask}
    \cup {BoolMask(shape, t) :
            t \in {s \in SUBSET (1..Prod(shape)) : Cardinality(s) <= MaxBad}}
    \cup {[BoolMask(shape, {}) EXCEPT !.dtype = "float64"],
          BoolMask(<<shape[1] + 1, shape[2], shape[3]>>, {}),
          [BoolMask(<<shape[1], shape[3] + 1, shape[2]>>, {}) EXCEPT !.dtype = "int64"]}

Orders == {None} \cup 0..MaxOrder

SplineOrders == {None} \cup 0..(SplineOrderMax + 1)

InitCall(cubes, filecubes, porders, sorders, samplings) ==
    /\ \/ /\ caller = "baseline_cube"
          /\ pc = "baseline_cube"
          /\ cube \in cubes
          /\ cubemask \in Masks(cube.shape)
          /\ polyorder \in porders
          /\ splineorder \in sorders
          /\ sampling \in samplings
          /\ index_clean = {}
       \/ /\ caller = "baseline"
          /\ pc = "baseline"
          /\ cube \in filecubes
          /\ cubemask = NoMask
          /\ polyorder \in porders \ {None}
          /\ splineorder = None
          /\ sampling = 1
          /\ index_clean \in SUBSET (0..(cube.shape[1] - 1))
    /\ reshaped_cube = NoArray
    /\ fit_cube = NoArray
    /\ pending = {}
    /\ baselined = <<>>
    /\ nfit = 0
    /\ outcome = NoOutcome
    /\ file_out = NoArray

\* single spectra of up to MaxLen channels, every sample of one of the classes
SpectrumCubes(classes) ==
    UNION {{CubeOf(<<n, 1, 1>>, cls) : cls \in [1..n -> classes]} :
           n \in 1..MaxLen}

\* all-finite cubes of two channels and up to MaxPix pixels
DriverCubes ==
    {CubeOf(<<2, d[1], d[2]>>, [i \in 1..(2 * d[1] * d[2]) |-> "finite"]) :
       d \in {e \in (1..MaxPix) \X (1..MaxPix) : e[1] * e[2] <= MaxPix}}

Init == InitCall(DriverCubes, DriverCubes, {None, 0, 1}, {None, 2, 5}, {1, 2, 3})

Spec == Init /\ [][Next]_vars

InitFit == InitCall(SpectrumCubes({"finite", "nan"}),
                    SpectrumCubes({"finite", "nan", "inf"}),
                    Orders, SplineOrders, 1..MaxSampling)

SpecFit == InitFit /\ [][Next]_vars

---------------------------------------------------------------------------
(* Vocabulary of the properties. *)

Started == pc \in {"parallel_map", "returned", "raised"}

\* pixels whose fit has run
Fitted == {p \in DOMAIN baselined : baselined[p].kind # "pending"}

MaskInvalid ==
    /\ cubemask.dtype # "NoneType"
    /\ cubemask.dtype # "bool" \/ cubemask.shape # cube.shape

\* the raw spectrum of spatial pixel (y, x), read from the cube itself
RawAt(y, x) == [c \in 1..nchan |-> cube.data[Flat(c - 1, y, x)]]

\* the spectrum of pixel (y, x) the fit sees: masked samples are NaN
MaskedAt(y, x) ==
    [c \in 1..nchan |->
        IF cubemask.dtype = "bool" /\ cubemask.data[Flat(c - 1, y, x)]
        THEN nan ELSE cube.data[Flat(c - 1, y, x)]]

\* number of good samples of the spectrum task p fits
NGood(p) ==
    Cardinality({c \in 1..nchan : isfinite(Row(fit_cube, p)[c])})

PolyMode == polyorder # None

SplineMode == polyorder = None /\ splineorder # None

SplineOrderValid ==
    splineorder >= SplineOrderMin /\ splineorder <= SplineOrderMax

---------------------------------------------------------------------------
(* C1: a supplied cubemask that is not boolean or not of the cube's shape  *)
(* makes baseline_cube raise the type/shape error, and no fit has been     *)
(* invoked in any state of such a run.                                     *)
C1_InvalidMaskRaisesBeforeFit ==
    MaskInvalid =>
        /\ nfit = 0
        /\ Fitted = {}
        /\ pc # "parallel_map"
        /\ pc # "returned"
        /\ pc = "raised" =>
              outcome.exc = IF cubemask.dtype # "bool"
                            THEN "TypeError: Cube mask *must* be a boolean array."
                            ELSE "ValueError: Mask shape does not match cube shape"

C1_Witness ==
    /\ MaskInvalid
    /\ cubemask.dtype = "bool"
    /\ pc = "raised"
    /\ nfit = 0

---------------------------------------------------------------------------
(* C3: a returned cube has the input's shape and its spectrum at spatial   *)
(* pixel (y, x) is the fit function applied to the (masked, raw) spectra   *)
(* of input pixel (y, x), whatever order the tasks ran in.                 *)
C3_ReassembledByPixel ==
    pc = "returned" =>
        /\ outcome.blcube.shape = cube.shape
        /\ Len(outcome.blcube.data) = Len(cube.data)
        /\ \A y \in 0..(cube.shape[2] - 1), x \in 0..(cube.shape[3] - 1) :
              LET r == blfunc(MaskedAt(y, x), RawAt(y, x), arange(nchan),
                              polyorder, splineorder, sampling)
              IN  /\ r.kind = "return"
                  /\ [c \in 1..nchan |-> outcome.blcube.data[Flat(c - 1, y, x)]]
                        = r.value

C3_Witness ==
    /\ pc = "returned"
    /\ cube.shape[2] > 1
    /\ cube.shape[3] > 1
    /\ \E p, q \in DOMAIN baselined :
          baselined[p].call = "polyfit" /\ baselined[q].call = ""

---------------------------------------------------------------------------
(* C6: no partial results.  Once the fit of a pixel has raised, the call   *)
(* never returns a cube and writes no file; a cube is returned only when   *)
(* every pixel's fit returned.                                             *)
C6_NoPartialResults ==
    /\ (\E p \in Fitted : baselined[p].kind = "raise") =>
          /\ pc \in {"parallel_map", "raised"}
          /\ outcome.blcube = NoArray
          /\ file_out = NoArray
    /\ pc = "returned" =>
          /\ pending = {}
          /\ \A p \in DOMAIN baselined : baselined[p].kind = "return"
    /\ pc = "raised" /\ Fitted # {} => outcome.kind = "raised"

C6_Witness ==
    /\ pc = "raised"
    /\ pending # {}
    /\ \E p, q \in Fitted :
          /\ baselined[p].kind = "raise"
          /\ baselined[q].kind = "return"
          /\ baselined[q].call = "polyfit"

---------------------------------------------------------------------------
(* C2: a spectrum with ngood <= polyorder (polynomial mode), or with       *)
(* ngood <= splineorder and splineorder in {1,2,3,4} (spline mode), comes  *)
(* back as the raw spectrum, unchanged, with no error, for every sampling. *)
C2_TooFewSamplesReturnsRaw ==
    \A p \in Fitted :
        (\/ PolyMode /\ NGood(p) <= polyorder
         \/ SplineMode /\ SplineOrderValid /\ NGood(p) <= splineorder)
        => /\ baselined[p].kind = "return"
           /\ baselined[p].value = Row(reshaped_cube, p)

\* The polynomial half of C2, which the code does satisfy.
PolyTooFewSamplesReturnsRaw ==
    \A p \in Fitted :
        PolyMode /\ NGood(p) <= polyorder
        => /\ baselined[p].kind = "return"
           /\ baselined[p].call = ""
           /\ baselined[p].value = Row(reshaped_cube, p)

---------------------------------------------------------------------------
(* C4, as claimed: with neither or with both of polyorder and splineorder  *)
(* given, the fit function raises for every spectrum.                      *)
C4_NeitherOrBothRaises ==
    \A p \in Fitted :
        (polyorder = None) = (splineorder = None) => baselined[p].kind = "raise"

(* C4, amended: with neither given the fit function raises "Must provide   *)
(* polyorder or splineorder" for every spectrum; with both given it        *)
(* reports no configuration error: polyorder wins, the spline order is     *)
(* ignored and the spectrum is handled in polynomial mode (raw fallback    *)
(* when ngood <= polyorder, np.polyfit otherwise).                         *)
C4_NeitherRaisesBothIsPolynomial ==
    \A p \in Fitted :
        /\ polyorder = None /\ splineorder = None =>
              /\ baselined[p].kind = "raise"
              /\ baselined[p].exc = "ValueError: Must provide polyorder or splineorder"
        /\ polyorder # None /\ splineorder # None =>
              /\ baselined[p].k = polyorder
              /\ IF NGood(p) <= polyorder
                 THEN baselined[p].kind = "return" /\ baselined[p].call = ""
                 ELSE baselined[p].call = "polyfit"
              /\ baselined[p].exc # "ValueError: Must provide polyorder or splineorder"

C4_Witness ==
    /\ polyorder # None
    /\ splineorder # None
    /\ ~SplineOrderValid
    /\ \E p \in Fitted : baselined[p].kind = "return" /\ baselined[p].call = "polyfit"

---------------------------------------------------------------------------
(* C5, as claimed: whenever a splineorder outside {1,2,3,4} is configured, *)
(* the fit function raises for every spectrum.                             *)
C5_BadSplineOrderRaises ==
    \A p \in Fitted :
        splineorder # None /\ ~SplineOrderValid => baselined[p].kind = "raise"

(* C5, amended: whenever no polyorder is given and a splineorder outside   *)
(* {1,2,3,4} is configured, the fit function raises for every spectrum,    *)
(* also for one with too few good samples: none takes the raw fallback.    *)
C5_BadSplineOrderAloneRaises ==
    \A p \in Fitted :
        SplineMode /\ ~SplineOrderValid =>
            /\ baselined[p].kind = "raise"
            /\ baselined[p].call = ""

C5_Witness ==
    /\ SplineMode
    /\ ~SplineOrderValid
    /\ \E p \in Fitted : NGood(p) <= splineorder /\ baselined[p].kind = "raise"

---------------------------------------------------------------------------
(* C7: in spline mode with a valid order and ngood > splineorder, the fit  *)
(* function raises "Sampling is too sparse" without calling the spline fit *)
(* when floor(ngood / sampling) <= splineorder, and calls the spline fit   *)
(* when floor(ngood / sampling) > splineorder.                             *)
C7_SparseSamplingRaises ==
    \A p \in Fitted :
        SplineMode /\ SplineOrderValid /\ NGood(p) > splineorder =>
            IF NGood(p) \div sampling <= splineorder
            THEN /\ baselined[p].kind = "raise"
                 /\ baselined[p].exc = "ValueError: Sampling is too sparse."
                 /\ baselined[p].call = ""
            ELSE baselined[p].call = "UnivariateSpline"

---------------------------------------------------------------------------
(* C8: in baseline, the samples of a pixel that enter its fit are exactly  *)
(* those whose channel is in index_clean and whose value is finite.        *)

\* channels of task p that are in index_clean and finite in the cube
CleanFinite(p) ==
    {c \in index_clean : isfinite(cube.data[c * npix + p + 1])}

C8_FitUsesCleanFiniteSamples ==
    caller = "baseline" /\ Started =>
        \A p \in DOMAIN baselined :
            /\ {c \in 0..(nchan - 1) : isfinite(Row(fit_cube, p)[c + 1])}
                  = CleanFinite(p)
            /\ baselined[p].call = "polyfit" =>
                  /\ {baselined[p].xfit[j] : j \in 1..Len(baselined[p].xfit)}
                        = CleanFinite(p)
                  /\ Len(baselined[p].xfit) = Cardinality(CleanFinite(p))
                  /\ \A j \in 1..Len(baselined[p].yfit) :
                        baselined[p].yfit[j]
                           = <<cube.data[baselined[p].xfit[j] * npix + p + 1]>>

C8_Witness ==
    /\ caller = "baseline"
    /\ pc = "returned"
    /\ \E p \in Fitted :
          /\ baselined[p].call = "polyfit"
          /\ \E c \in index_clean : cube.data[c * npix + p + 1].cls = "inf"
          /\ \E c \in index_clean : cube.data[c * npix + p + 1].cls = "nan"
          /\ \E c \in (0..(nchan - 1)) \ index_clean :
                isfinite(cube.data[c * npix + p + 1])

---------------------------------------------------------------------------
(* C9: with endpoint = ngood - (ngood mod sampling), the phase groups of   *)
(* the good samples partition the first endpoint good samples, each group  *)
(* has endpoint / sampling entries, and so has the subsampled x-axis: the  *)
(* y and x sequences handed to the fit have equal length.                  *)

\* x values of the good samples of task p (x = arange, so they name them)
GoodX(p) ==
    BoolIndex(arange(nchan), [c \in 1..nchan |-> isfinite(Row(fit_cube, p)[c])])

C9_PhaseGroupsPartition ==
    Started =>
        \A p \in DOMAIN baselined :
            LET xg == GoodX(p)
                ng == Len(xg)
                ep == ng - (ng % sampling)
                gs == PhaseGroups(xg, ng, sampling)
                sx == SubsampledX(xg, ng, sampling)
                ym == mean_axis0(PhaseGroups(BoolIndex(Row(fit_cube, p),
                                   [c \in 1..nchan |-> isfinite(Row(fit_cube, p)[c])]),
                                   ng, sampling))
            IN  /\ Len(gs) = sampling
                /\ \A ii \in 1..sampling : Len(gs[ii]) = ep \div sampling
                /\ \A i \in 1..ep :
                      Cardinality({<<ii, j>> \in (1..sampling) \X (1..(ep \div sampling)) :
                                     j <= Len(gs[ii]) /\ gs[ii][j] = xg[i]}) = 1
                /\ \A ii \in 1..sampling : \A j \in 1..Len(gs[ii]) :
                      \E i \in 1..ep : gs[ii][j] = xg[i]
                /\ Len(sx) = ep \div sampling
                /\ Len(ym) = Len(sx)
                /\ baselined[p].call = "polyfit" =>
                      /\ Len(baselined[p].xfit) = Len(baselined[p].yfit)
                      /\ Len(baselined[p].xfit) = ep \div sampling

C9_Witness ==
    /\ sampling > 1
    /\ \E p \in Fitted :
          /\ NGood(p) % sampling # 0
          /\ NGood(p) > sampling
          /\ baselined[p].kind = "return"
          /\ baselined[p].call = "polyfit"

---------------------------------------------------------------------------
(* C10: in polynomial mode the fit function either returns the raw         *)
(* spectrum or calls np.polyfit with more than polyorder fit points, never *)
(* with polyorder or fewer, in particular never with none.                 *)
C10_PolyfitHasEnoughPoints ==
    \A p \in Fitted :
        PolyMode =>
            \/ /\ baselined[p].kind = "return"
               /\ baselined[p].call = ""
               /\ baselined[p].value = Row(reshaped_cube, p)
            \/ /\ baselined[p].call = "polyfit"
               /\ Len(baselined[p].xfit) > polyorder

=============================================================================
